---- MODULE Spec2Model ----
(***************************************************************************)
(* The generation proxy (api/proxy.ts, api/proxy.js): one handler per      *)
(* inbound GET request relays the progress callbacks of one upstream       *)
(* fal.subscribe call to the client as server-sent events, writes one      *)
(* terminal event and ends the response.  The variable `deployed` says     *)
(* which of the two modules serves the endpoint; the earlier JavaScript    *)
(* text of proxy.ts kept in the repository has the control flow of         *)
(* proxy.ts and is covered by it.                                          *)
(*                                                                         *)
(* JavaScript strings are sequences of character groups (<<"4", "2">> is   *)
(* "42", <<>> is ""), so template literals are concatenations and parseInt *)
(* and JSON.stringify are computed, not assumed.  JavaScript values are    *)
(* records tagged by "type".                                               *)
(***************************************************************************)
EXTENDS Integers, Sequences, FiniteSets, TLC

\* Progress callbacks upstream makes on one subscription before the handler
\* has completed.
MaxUpdates == 2

\* Log entries carried by one progress update.
MaxLogs == 2

\* Progress callbacks upstream makes after the handler has completed.
MaxLate == 1

\* The most progress updates upstream makes for one of two concurrent requests.
MaxConcurrentUpdates == 1

\* The most submissions of the text input.
MaxSubmissions == 2

\* The most milliseconds the clock of the browser advances.
MaxClock == 1

VARIABLES
    env,          \* process.env.FAL_KEY
    credentials,  \* the credentials held by the process-wide fal client
    deployed,     \* the module that serves /api/proxy
    incoming,     \* ids of the requests that have not reached the server yet
    query,        \* per request: req.query
    pc,           \* per request: the position of its handler
    res,          \* per request: its response object
    subscription, \* per request: the state of its fal.subscribe promise
    subscribed,   \* per request: the inputs fal.subscribe was called with
    updates,      \* per request: the updates upstream delivered while the handler was suspended
    late          \* per request: number of callbacks made after the handler completed

\* The state of the browser client (App.tsx).
VARIABLES
    designs,      \* the designs state: the list of designs, newest first
    textureUrl,   \* the textureUrl state: the texture applied to the model
    now,          \* Date.now()
    sources,      \* per call of generateImageWithFal, its EventSource
    submitted     \* the values handleTextInputSubmit was called with

client == <<designs, textureUrl, now, sources, submitted>>

server == <<env, credentials, deployed, incoming, query, pc, res, subscription,
            subscribed, updates, late>>

vars == <<env, credentials, deployed, incoming, query, pc, res, subscription,
          subscribed, updates, late, client>>

-----------------------------------------------------------------------------
(* JavaScript values *)

undefined == [type |-> "undefined"]

Str(s) == [type |-> "string", value |-> s]

Num(n) == [type |-> "number", value |-> n]

NaN == [type |-> "NaN"]

null == [type |-> "null"]

\* members: a sequence of <<key, value>> in insertion order
Obj(members) == [type |-> "object", value |-> members]

Arr(items) == [type |-> "array", value |-> items]

\* An Error instance with its message (a string).
Error(message) == [type |-> "Error", message |-> message]

\* ToBoolean: undefined, "", NaN and 0 are falsy.
Truthy(v) ==
    CASE v.type = "undefined" -> FALSE
      [] v.type = "NaN" -> FALSE
      [] v.type = "string" -> v.value # <<>>
      [] v.type = "number" -> v.value # 0
      [] OTHER -> TRUE

\* a || b
OrElse(a, b) == IF Truthy(a) THEN a ELSE b

-----------------------------------------------------------------------------
(* JSON.stringify, as the text it produces *)

\* A character inside a JSON string: the quote, the backslash and the
\* line feed are escaped.
EscapeChar(c) ==
    CASE c = "\"" -> "\\\""
      [] c = "\\" -> "\\\\"
      [] c = "\n" -> "\\n"
      [] OTHER -> c

\* A string as JSON text, between quotes.
Quote(s) == <<"\"">> \o [i \in 1..Len(s) |-> EscapeChar(s[i])] \o <<"\"">>

RECURSIVE JSONstringify(_)
RECURSIVE JSONmembers(_, _)
RECURSIVE JSONitems(_, _)

\* The members of an object: a member whose value is undefined is left out.
JSONmembers(members, first) ==
    IF members = <<>> THEN <<>>
    ELSE LET key == Head(members)[1]
             val == Head(members)[2]
         IN  IF val.type = "undefined"
             THEN JSONmembers(Tail(members), first)
             ELSE (IF first THEN <<>> ELSE <<",">>)
                  \o Quote(key) \o <<":">> \o JSONstringify(val)
                  \o JSONmembers(Tail(members), FALSE)

\* The items of an array: an undefined item is written null.
JSONitems(items, first) ==
    IF items = <<>> THEN <<>>
    ELSE (IF first THEN <<>> ELSE <<",">>)
         \o (IF Head(items).type = "undefined" THEN <<"null">>
             ELSE JSONstringify(Head(items)))
         \o JSONitems(Tail(items), FALSE)

JSONstringify(v) ==
    CASE v.type = "string" -> Quote(v.value)
      [] v.type = "number" -> <<ToString(v.value)>>
      [] v.type = "NaN" -> <<"null">>
      [] v.type = "null" -> <<"null">>
      [] v.type = "undefined" -> <<"undefined">>
      [] v.type = "array" -> <<"[">> \o JSONitems(v.value, TRUE) \o <<"]">>
      [] v.type = "object" -> <<"{">> \o JSONmembers(v.value, TRUE) \o <<"}">>

-----------------------------------------------------------------------------
(* JSON.parse, of the text JSON.stringify produces *)

\* The character an escaped character of a JSON string stands for.
UnescapeChar(c) ==
    CASE c = "\\\"" -> "\""
      [] c = "\\\\" -> "\\"
      [] c = "\\n" -> "\n"
      [] OTHER -> c

\* The numbers a JSON text of the model may hold.
JsonNumbers == 0..64

RECURSIVE JSONparseString(_, _, _)
RECURSIVE JSONparseValue(_, _)
RECURSIVE JSONparseMembers(_, _, _)
RECURSIVE JSONparseItems(_, _, _)

\* The string whose first character is at index i, up to the closing quote.
JSONparseString(text, i, acc) ==
    IF text[i] = "\"" THEN [value |-> Str(acc), next |-> i + 1]
    ELSE JSONparseString(text, i + 1, Append(acc, UnescapeChar(text[i])))

\* The members of an object from the opening quote of a key at index i.
JSONparseMembers(text, i, acc) ==
    LET key == JSONparseString(text, i + 1, <<>>)
        val == JSONparseValue(text, key.next + 1)
        members == Append(acc, <<key.value.value, val.value>>)
    IN  IF text[val.next] = ","
        THEN JSONparseMembers(text, val.next + 1, members)
        ELSE [value |-> Obj(members), next |-> val.next + 1]

\* The items of an array from the first token of an item at index i.
JSONparseItems(text, i, acc) ==
    LET val == JSONparseValue(text, i)
        items == Append(acc, val.value)
    IN  IF text[val.next] = ","
        THEN JSONparseItems(text, val.next + 1, items)
        ELSE [value |-> Arr(items), next |-> val.next + 1]

\* The value that starts at index i and the index after it.
JSONparseValue(text, i) ==
    CASE text[i] = "\"" -> JSONparseString(text, i + 1, <<>>)
      [] text[i] = "{" ->
            IF text[i + 1] = "}" THEN [value |-> Obj(<<>>), next |-> i + 2]
            ELSE JSONparseMembers(text, i + 1, <<>>)
      [] text[i] = "[" ->
            IF text[i + 1] = "]" THEN [value |-> Arr(<<>>), next |-> i + 2]
            ELSE JSONparseItems(text, i + 1, <<>>)
      [] text[i] = "null" -> [value |-> null, next |-> i + 1]
      [] OTHER ->
            [value |-> Num(CHOOSE n \in JsonNumbers : ToString(n) = text[i]),
             next |-> i + 1]

\* JSON.parse(text)
JSONparse(text) == JSONparseValue(text, 1).value

-----------------------------------------------------------------------------
(* The response object of one request (http.ServerResponse) *)

\* The response a request starts with: no header, nothing written, not ended.
\* head holds the headers as they were sent; body holds the chunks passed to
\* res.write before the end; faults counts the errors the response raised (a
\* write after end); destroyed says that the client has gone, and lost counts
\* the chunks written since, which reach nobody.
NewResponse ==
    [headers |-> <<>>, headersSent |-> FALSE, head |-> <<>>, body |-> <<>>,
     writableEnded |-> FALSE, endCalls |-> 0, faults |-> 0,
     destroyed |-> FALSE, lost |-> 0]

\* res.setHeader(name, value)
setHeader(r, name, value) ==
    IF r.headersSent THEN [r EXCEPT !.faults = @ + 1]
    ELSE [r EXCEPT !.headers = Append(@, <<name, value>>)]

\* The headers go out once: as they stand when they are first sent.
SendHead(r) ==
    IF r.headersSent THEN r ELSE [r EXCEPT !.headersSent = TRUE, !.head = r.headers]

\* A flushHeaders that sends nothing: the headers wait for the first write.
flushHeadersLater(r) == r

\* res.flushHeaders()
flushHeaders(r) == SendHead(r)

\* res.write(chunk): a write after end raises ERR_STREAM_WRITE_AFTER_END; a
\* write on a response whose client has gone raises nothing and is lost.
write(r, chunk) ==
    IF r.writableEnded THEN [r EXCEPT !.faults = @ + 1]
    ELSE [SendHead(r) EXCEPT !.body = Append(@, chunk),
                             !.lost = IF r.destroyed THEN @ + 1 ELSE @]

\* res.end()
end(r) ==
    [SendHead(r) EXCEPT !.writableEnded = TRUE, !.endCalls = @ + 1]

\* The client closes the connection: the response is destroyed.
destroy(r) == [r EXCEPT !.destroyed = TRUE]


-----------------------------------------------------------------------------
(* sendEvent *)

\* `event: ${eventName}\n`
EventLine(eventName) == <<"event: ">> \o eventName \o <<"\n">>

\* `data: ${JSON.stringify(data)}\n\n`
DataLine(data) == <<"data: ">> \o JSONstringify(data) \o <<"\n\n">>

\* sendEvent without the writableEnded check.
sendEventUnguarded(r, eventName, data) ==
    write(write(r, EventLine(eventName)), DataLine(data))

\* sendEvent(res, eventName, data): two writes, unless the response has ended.
sendEvent(r, eventName, data) ==
    IF ~r.writableEnded
    THEN write(write(r, EventLine(eventName)), DataLine(data))
    ELSE r

-----------------------------------------------------------------------------
(* Request normalisation *)

Digits == <<"0", "1", "2", "3", "4", "5", "6", "7", "8", "9">>

IsDigit(c) == \E i \in 1..Len(Digits) : Digits[i] = c

DigitValue(c) == (CHOOSE i \in 1..Len(Digits) : Digits[i] = c) - 1

IsWhiteSpace(c) == c \in {" ", "\t", "\n"}

RECURSIVE TrimStart(_)
TrimStart(s) ==
    IF s # <<>> /\ IsWhiteSpace(Head(s)) THEN TrimStart(Tail(s)) ELSE s

\* The value of the longest prefix of digits of s, continuing from acc.
RECURSIVE DigitsValue(_, _)
DigitsValue(s, acc) ==
    IF s # <<>> /\ IsDigit(Head(s))
    THEN DigitsValue(Tail(s), 10 * acc + DigitValue(Head(s)))
    ELSE acc

\* parseInt(string, 10): leading white space is skipped, then an optional
\* sign, then the longest run of digits; NaN when there is no digit.
parseInt(v) ==
    LET s == IF v.type = "string" THEN TrimStart(v.value) ELSE <<"undefined">>
        signed == s # <<>> /\ Head(s) \in {"-", "+"}
        t == IF signed THEN Tail(s) ELSE s
    IN  IF t # <<>> /\ IsDigit(Head(t))
        THEN Num((IF signed /\ Head(s) = "-" THEN -1 ELSE 1) * DigitsValue(t, 0))
        ELSE NaN

\* obj.key on a query or input object: undefined when the key is absent.
Prop(obj, key) == IF key \in DOMAIN obj THEN obj[key] ELSE undefined

\* A rest pattern that keeps only the parameters the handler knows.
RestOfInputKnown(q) ==
    [k \in DOMAIN q \cap {"image_size", "seed", "num_images"} |-> q[k]]

\* const { prompt, ...restOfInput } = req.query
RestOfInput(q) == [k \in DOMAIN q \ {"prompt"} |-> q[k]]

\* if (input[key]) input[key] = parseInt(input[key], 10)
ParseIfPresent(input, key) ==
    IF Truthy(Prop(input, key))
    THEN [input EXCEPT ![key] = parseInt(input[key])]
    ELSE input

\* The input passed to fal.subscribe: { prompt, ...restOfInput } with seed
\* and num_images parsed.
NormalizeInput(q) ==
    LET rest == RestOfInput(q)
        input == [k \in DOMAIN rest \cup {"prompt"} |->
                     IF k = "prompt" THEN Prop(q, "prompt") ELSE rest[k]]
    IN  ParseIfPresent(ParseIfPresent(input, "seed"), "num_images")

\* The key check as `apiKey === undefined`: an empty key passes.
MissingApiKeyUndefinedOnly(apiKey) == apiKey = undefined

\* if (!apiKey)
MissingApiKey(apiKey) == ~Truthy(apiKey)

\* The prompt check as `prompt === undefined`: an empty prompt passes.
MissingPromptUndefinedOnly(q) == Prop(q, "prompt") = undefined

\* if (!prompt)
MissingPrompt(q) == ~Truthy(Prop(q, "prompt"))


-----------------------------------------------------------------------------
(* The handler *)

\* obj[key] on a JavaScript object value: undefined when it has no such member.
Get(obj, key) ==
    LET at == {i \in 1..Len(obj.value) : obj.value[i][1] = key}
    IN  IF at = {} THEN undefined
        ELSE obj.value[CHOOSE i \in at : \A j \in at : j <= i][2]

\* proxy.ts: the four setHeader calls and flushHeaders.
TsStreamHeaders(r) ==
    flushHeaders(
        setHeader(
            setHeader(
                setHeader(
                    setHeader(r, "Access-Control-Allow-Origin", "*"),
                    "Content-Type", "text/event-stream"),
                "Cache-Control", "no-cache"),
            "Connection", "keep-alive"))

\* proxy.js: the five setHeader calls and flushHeaders.
JsStreamHeaders(r) ==
    flushHeaders(
        setHeader(
            setHeader(
                setHeader(
                    setHeader(
                        setHeader(r, "Access-Control-Allow-Origin", "*"),
                        "Access-Control-Allow-Methods", "GET"),
                    "Content-Type", "text/event-stream"),
                "Cache-Control", "no-cache"),
            "Connection", "keep-alive"))

\* A catch block that reports the generic message alone.
TsCatchNoDetails(r, error) ==
    sendEvent(r, <<"error">>,
              Obj(<< << <<"message">>, Str(<<"A critical error occurred on the server.">>) >> >>))

\* proxy.ts: the catch block.
TsCatch(r, error) ==
    sendEvent(r, <<"error">>,
              Obj(<< << <<"message">>, Str(<<"A critical error occurred on the server.">>) >>,
                     << <<"details">>, Str(error.message) >> >>))

\* proxy.js: the catch block.
JsCatch(r, error) ==
    sendEvent(r, <<"error">>,
              Obj(<< << <<"message">>,
                        OrElse(Str(error.message), Str(<<"An unknown error occurred.">>)) >> >>))

\* A catch block that only logs the error.
CatchSilent(r, error) == r

\* The catch block of the deployed module.
Catch(r, error) ==
    IF deployed = "proxy.ts" THEN TsCatch(r, error) ELSE JsCatch(r, error)

\* A finally block that ends the response without looking at writableEnded.
FinallyUnguarded(r) == end(r)

\* A finally block that never ends the response.
FinallyNoEnd(r) == r

\* The finally block: end the response unless it has ended.
Finally(r) == IF ~r.writableEnded THEN end(r) ELSE r

\* A forEach that walks the logs from the last to the first.
RECURSIVE forEachLogReversed(_, _)
forEachLogReversed(r, logs) ==
    IF logs = <<>> THEN r
    ELSE sendEvent(forEachLogReversed(r, Tail(logs)), <<"log">>,
                   Obj(<< << <<"message">>, Get(Head(logs), <<"message">>) >> >>))

\* update.logs.forEach((log) => sendEvent(res, 'log', { message: log.message }))
RECURSIVE forEachLog(_, _)
forEachLog(r, logs) ==
    IF logs = <<>> THEN r
    ELSE forEachLog(
             sendEvent(r, <<"log">>,
                       Obj(<< << <<"message">>, Get(Head(logs), <<"message">>) >> >>)),
             Tail(logs))

\* A callback that sends the logs of an update before its status.
onQueueUpdateLogsFirst(r, update) ==
    LET r1 == IF update.status = Str(<<"IN_PROGRESS">>) /\ Truthy(update.logs)
              THEN forEachLog(r, update.logs.value)
              ELSE r
    IN  sendEvent(r1, <<"status">>, Obj(<< << <<"status">>, update.status >> >>))

\* A callback that sends the logs of an update whatever its status.
onQueueUpdateAnyStatus(r, update) ==
    LET r1 == sendEvent(r, <<"status">>, Obj(<< << <<"status">>, update.status >> >>))
    IN  IF Truthy(update.logs) THEN forEachLog(r1, update.logs.value) ELSE r1

\* The onQueueUpdate callback passed to fal.subscribe.
onQueueUpdate(r, update) ==
    LET r1 == sendEvent(r, <<"status">>, Obj(<< << <<"status">>, update.status >> >>))
    IN  IF update.status = Str(<<"IN_PROGRESS">>) /\ Truthy(update.logs)
        THEN forEachLog(r1, update.logs.value)
        ELSE r1

\* A handler that sends the data of the result in place of the result.
AfterAwaitDataOnly(r, settled) ==
    IF settled.state = "resolved"
    THEN Finally(sendEvent(r, <<"result">>, Get(settled.value, <<"data">>)))
    ELSE Finally(Catch(r, settled.value))

\* A try/catch that lost its finally block: the response is never ended.
AfterAwaitNoFinally(r, settled) ==
    IF settled.state = "resolved"
    THEN sendEvent(r, <<"result">>, settled.value)
    ELSE Catch(r, settled.value)

\* A try/finally that lost its catch block: a rejection writes no event.
AfterAwaitNoCatch(r, settled) ==
    IF settled.state = "resolved"
    THEN Finally(sendEvent(r, <<"result">>, settled.value))
    ELSE Finally(r)

\* The handler after `await fal.subscribe(...)`: the result event when the
\* promise resolved, the catch block when it rejected, then the finally block.
AfterAwait(r, settled) ==
    IF settled.state = "resolved"
    THEN Finally(sendEvent(r, <<"result">>, settled.value))
    ELSE Finally(Catch(r, settled.value))

\* A try block that configures the client and checks the prompt before it
\* checks the credential.
TsTryPromptFirst(q) ==
    LET r1 == TsStreamHeaders(NewResponse)
        apiKey == env
    IN  IF MissingPrompt(q)
        THEN [outcome |-> "throw", res |-> r1, credentials |-> apiKey,
              error |-> Error(<<"A 'prompt' is required in the query parameters.">>)]
        ELSE IF MissingApiKey(apiKey)
        THEN [outcome |-> "throw", res |-> r1, credentials |-> apiKey,
              error |-> Error(<<"FAL_KEY environment variable not found on server.">>)]
        ELSE [outcome |-> "await", res |-> r1, credentials |-> apiKey,
              input |-> NormalizeInput(q)]

\* proxy.ts up to the await.  outcome "throw": the try block threw `error`;
\* outcome "await": fal.subscribe was called with `input`.
TsTry(q) ==
    LET r1 == TsStreamHeaders(NewResponse)
        apiKey == env
    IN  IF MissingApiKey(apiKey)
        THEN [outcome |-> "throw", res |-> r1, credentials |-> credentials,
              error |-> Error(<<"FAL_KEY environment variable not found on server.">>)]
        ELSE IF MissingPrompt(q)
        THEN [outcome |-> "throw", res |-> r1, credentials |-> apiKey,
              error |-> Error(<<"A 'prompt' is required in the query parameters.">>)]
        ELSE [outcome |-> "await", res |-> r1, credentials |-> apiKey,
              input |-> NormalizeInput(q)]

\* proxy.js up to the await.  outcome "return": the handler returned early.
JsSetup(q) ==
    LET r1 == JsStreamHeaders(NewResponse)
        apiKey == env
    IN  IF MissingApiKey(apiKey)
        THEN [outcome |-> "return", credentials |-> credentials,
              res |-> end(sendEvent(r1, <<"error">>,
                          Obj(<< << <<"message">>,
                                    Str(<<"API key not configured on the server.">>) >> >>)))]
        ELSE IF MissingPrompt(q)
        THEN [outcome |-> "return", credentials |-> apiKey,
              res |-> end(sendEvent(r1, <<"error">>,
                          Obj(<< << <<"message">>,
                                    Str(<<"A 'prompt' is required.">>) >> >>)))]
        ELSE [outcome |-> "await", res |-> r1, credentials |-> apiKey,
              input |-> NormalizeInput(q)]

\* The statements of the handler's setup that may raise: setting the first
\* header, configuring the fal client, reading the query of the request.
FaultPoints == {"res.setHeader", "fal.config", "req.query"}

\* What a failing statement raises.
Fault(at) == Error(<<at, " failed">>)

\* proxy.ts up to the await when the statement `at` raises: the try block
\* throws there, unless it threw earlier on its own.
TsTryFault(q, at) ==
    LET r1 == TsStreamHeaders(NewResponse)
        apiKey == env
    IN  IF at = "res.setHeader"
        THEN [outcome |-> "throw", res |-> NewResponse, credentials |-> credentials,
              error |-> Fault(at)]
        ELSE IF MissingApiKey(apiKey)
        THEN TsTry(q)
        ELSE IF at = "fal.config"
        THEN [outcome |-> "throw", res |-> r1, credentials |-> credentials,
              error |-> Fault(at)]
        ELSE [outcome |-> "throw", res |-> r1, credentials |-> apiKey,
              error |-> Fault(at)]

\* proxy.js up to the await when the statement `at` raises.  The setup is
\* outside the try block: outcome "unhandled" is the handler's promise
\* rejecting with the failure, nothing sent and nothing ended.
JsSetupFault(q, at) ==
    LET r1 == JsStreamHeaders(NewResponse)
        apiKey == env
    IN  IF at = "res.setHeader"
        THEN [outcome |-> "unhandled", res |-> NewResponse, credentials |-> credentials,
              error |-> Fault(at)]
        ELSE IF MissingApiKey(apiKey)
        THEN JsSetup(q)
        ELSE IF at = "fal.config"
        THEN [outcome |-> "unhandled", res |-> r1, credentials |-> credentials,
              error |-> Fault(at)]
        ELSE [outcome |-> "unhandled", res |-> r1, credentials |-> apiKey,
              error |-> Fault(at)]

-----------------------------------------------------------------------------
(* Inputs *)

RequestIds == {1, 2}

Modules == {"proxy.ts", "proxy.js"}

\* process.env.FAL_KEY: unset, empty or set.
ApiKeys == {undefined, Str(<<>>), Str(<<"fal-key">>)}

QueryValues(key) ==
    IF key = "prompt" THEN {Str(<<>>), Str(<<"red dragon">>)}
    ELSE {Str(<<"4", "2">>)}

\* req.query: each key absent or one of its values.
Queries ==
    UNION {{q \in [keys -> UNION {QueryValues(k) : k \in keys}] :
                \A k \in keys : q[k] \in QueryValues(k)} :
           keys \in SUBSET {"prompt", "seed"}}

\* The parameters a request may carry: the four the client sends and one
\* the handler does not know.
ParamKeys == {"prompt", "seed", "num_images", "image_size", "style"}

\* Values of a parameter: for seed and num_images the empty string, "0",
\* an integer, text with no digit and, for seed, an integer followed by text.
ParamValues(key) ==
    CASE key = "prompt" -> {Str(<<"red dragon">>)}
      [] key = "seed" -> {Str(<<>>), Str(<<"0">>), Str(<<"4", "2">>),
                          Str(<<"a", "b", "c">>), Str(<<"4", "x">>)}
      [] key = "num_images" -> {Str(<<>>), Str(<<"0">>), Str(<<"1">>),
                                Str(<<"a", "b", "c">>)}
      [] key = "image_size" -> {Str(<<"landscape_16_9">>)}
      [] OTHER -> {Str(<<"bar">>)}

\* req.query over all the parameters.
ParamQueries ==
    UNION {{q \in [keys -> UNION {ParamValues(k) : k \in keys}] :
                \A k \in keys : q[k] \in ParamValues(k)} :
           keys \in SUBSET ParamKeys}

Statuses == {Str(<<"IN_QUEUE">>), Str(<<"IN_PROGRESS">>), Str(<<"COMPLETED">>)}

LogEntry(i) == Obj(<< << <<"message">>, Str(<<"line ", ToString(i)>>) >> >>)

\* update.logs: absent, empty, or MaxLogs log lines.
LogLists == {undefined, Arr(<<>>), Arr([i \in 1..MaxLogs |-> LogEntry(i)])}

QueueUpdates == [status : Statuses, logs : LogLists]

\* The prompt a result echoes: it holds quotes and ends with a line feed.
EchoedPrompt == Str(<<"a ", "\"", "red", "\"", " dragon", "\n">>)

ImageResult(images) ==
    Obj(<< << <<"data">>, Obj(<< << <<"images">>, Arr(images) >>,
                                 << <<"prompt">>, EchoedPrompt >>,
                                 << <<"seed">>, Num(42) >> >>) >>,
           << <<"requestId">>, Str(<<"req-1">>) >> >>)

\* What fal.subscribe resolves with: a result with one image, or with none.
Results ==
    {ImageResult(<< Obj(<< << <<"url">>, Str(<<"https://fal.media/x.png">>) >> >>) >>),
     ImageResult(<<>>)}

\* What fal.subscribe rejects with.
Rejections == {Error(<<"Unprocessable Entity">>), Error(<<>>)}

NotSubscribed == [state |-> "none", value |-> undefined]

\* The browser client after App has mounted: no design, no texture, no
\* EventSource.
ClientMounted ==
    /\ designs = <<>>
    /\ textureUrl = null
    /\ now = 0
    /\ sources = <<>>
    /\ submitted = <<>>

-----------------------------------------------------------------------------
(* The state machine *)

Init ==
    /\ ClientMounted
    /\ env \in ApiKeys
    /\ credentials = undefined
    /\ deployed \in Modules
    /\ incoming = {1}
    /\ query = [id \in RequestIds |-> << >>]
    /\ pc = [id \in RequestIds |-> "idle"]
    /\ res = [id \in RequestIds |-> NewResponse]
    /\ subscription = [id \in RequestIds |-> NotSubscribed]
    /\ subscribed = [id \in RequestIds |-> <<>>]
    /\ updates = [id \in RequestIds |-> <<>>]
    /\ late = [id \in RequestIds |-> 0]

\* What a handler's synchronous part leaves behind: it suspends at the await
\* with fal.subscribe called, or it has completed.
Started(id, q, s, completed) ==
    /\ incoming' = incoming \ {id}
    /\ query' = [query EXCEPT ![id] = q]
    /\ credentials' = s.credentials
    /\ IF s.outcome = "await"
       THEN /\ res' = [res EXCEPT ![id] = s.res]
            /\ pc' = [pc EXCEPT ![id] = "awaiting"]
            /\ subscribed' = [subscribed EXCEPT ![id] = Append(@, s.input)]
            /\ subscription' = [subscription EXCEPT ![id] = [state |-> "pending", value |-> undefined]]
       ELSE /\ res' = [res EXCEPT ![id] = completed]
            /\ pc' = [pc EXCEPT ![id] = "done"]
            /\ UNCHANGED <<subscribed, subscription>>
    /\ UNCHANGED <<client, env, deployed, updates, late>>

\* proxy.ts serves a request: the handler runs to its await, or through
\* catch and finally when the try block throws.
TsHandler(id) ==
    /\ deployed = "proxy.ts"
    /\ id \in incoming
    /\ \E q \in Queries :
          LET s == TsTry(q)
          IN  Started(id, q, s, IF s.outcome = "throw"
                             THEN Finally(TsCatch(s.res, s.error))
                             ELSE s.res)

\* proxy.js serves a request: the handler runs to its await, or returns early.
JsHandler(id) ==
    /\ deployed = "proxy.js"
    /\ id \in incoming
    /\ \E q \in Queries :
          LET s == JsSetup(q)
          IN  Started(id, q, s, s.res)

\* Upstream calls onQueueUpdate while the handler is suspended at the await.
QueueUpdate(id) ==
    /\ pc[id] = "awaiting"
    /\ Len(updates[id]) < MaxUpdates
    /\ \E update \in QueueUpdates :
          /\ res' = [res EXCEPT ![id] = onQueueUpdate(@, update)]
          /\ updates' = [updates EXCEPT ![id] = Append(@, update)]
    /\ UNCHANGED <<client, env, credentials, deployed, incoming, query, pc, subscription,
                   subscribed, late>>

\* Upstream calls onQueueUpdate after the handler has completed.
LateQueueUpdate(id) ==
    /\ pc[id] = "done"
    /\ subscription[id].state # "none"
    /\ late[id] < MaxLate
    /\ \E update \in QueueUpdates :
          res' = [res EXCEPT ![id] = onQueueUpdate(@, update)]
    /\ late' = [late EXCEPT ![id] = @ + 1]
    /\ UNCHANGED <<client, env, credentials, deployed, incoming, query, pc, subscription,
                   subscribed, updates>>

\* The promise of fal.subscribe resolves.
Resolve(id) ==
    /\ subscription[id].state = "pending"
    /\ \E result \in Results :
          subscription' = [subscription EXCEPT ![id] = [state |-> "resolved", value |-> result]]
    /\ UNCHANGED <<client, env, credentials, deployed, incoming, query, pc, res, subscribed,
                   updates, late>>

\* The promise of fal.subscribe rejects.
Reject(id) ==
    /\ subscription[id].state = "pending"
    /\ \E error \in Rejections :
          subscription' = [subscription EXCEPT ![id] = [state |-> "rejected", value |-> error]]
    /\ UNCHANGED <<client, env, credentials, deployed, incoming, query, pc, res, subscribed,
                   updates, late>>

\* A handler that calls fal.subscribe again when the call was rejected.
ResumeRetry(id) ==
    /\ pc[id] = "awaiting"
    /\ subscription[id].state \in {"resolved", "rejected"}
    /\ IF subscription[id].state = "rejected"
       THEN /\ subscribed' = [subscribed EXCEPT ![id] = Append(@, @[1])]
            /\ subscription' = [subscription EXCEPT ![id] = [state |-> "pending", value |-> undefined]]
            /\ UNCHANGED <<res, pc>>
       ELSE /\ res' = [res EXCEPT ![id] = AfterAwait(@, subscription[id])]
            /\ pc' = [pc EXCEPT ![id] = "done"]
            /\ UNCHANGED <<subscription, subscribed>>
    /\ UNCHANGED <<client, env, credentials, deployed, incoming, query, updates, late>>

\* The handler resumes after the await and runs to its end.
Resume(id) ==
    /\ pc[id] = "awaiting"
    /\ subscription[id].state \in {"resolved", "rejected"}
    /\ res' = [res EXCEPT ![id] = AfterAwait(@, subscription[id])]
    /\ pc' = [pc EXCEPT ![id] = "done"]
    /\ UNCHANGED <<client, env, credentials, deployed, incoming, query, subscription,
                   subscribed, updates, late>>

Next ==
    \/ \E id \in RequestIds : TsHandler(id)
    \/ \E id \in RequestIds : JsHandler(id)
    \/ \E id \in RequestIds : QueueUpdate(id)
    \/ \E id \in RequestIds : LateQueueUpdate(id)
    \/ \E id \in RequestIds : Resolve(id)
    \/ \E id \in RequestIds : Reject(id)
    \/ \E id \in RequestIds : Resume(id)

Spec == Init /\ [][Next]_vars

\* The client closes its EventSource, or goes away, while the handler is
\* suspended at the await.
ClientDisconnect(id) ==
    /\ pc[id] = "awaiting"
    /\ ~res[id].destroyed
    /\ res' = [res EXCEPT ![id] = destroy(@)]
    /\ UNCHANGED <<client, env, credentials, deployed, incoming, query, pc, subscription,
                   subscribed, updates, late>>

NextDisconnect ==
    \/ Next
    \/ \E id \in RequestIds : ClientDisconnect(id)

\* The proxy with clients that may disconnect mid-stream.
SpecDisconnect == Init /\ [][NextDisconnect]_vars


-----------------------------------------------------------------------------
(* The events on a connection, read back from the bytes written to it *)

RECURSIVE Flatten(_)
Flatten(chunks) ==
    IF chunks = <<>> THEN <<>> ELSE Head(chunks) \o Flatten(Tail(chunks))

\* The least index from `from` on at which text holds `token`; 0 when none.
RECURSIVE IndexOf(_, _, _)
IndexOf(text, token, from) ==
    IF from > Len(text) THEN 0
    ELSE IF text[from] = token THEN from
    ELSE IndexOf(text, token, from + 1)

\* The complete events of an event stream from index `from` on: an
\* "event: " line, a "data: " line and a blank line each.  An incomplete
\* tail is no event.
RECURSIVE ParseEventsFrom(_, _)
ParseEventsFrom(text, from) ==
    IF from > Len(text) \/ text[from] # "event: " THEN <<>>
    ELSE LET nameEnd == IndexOf(text, "\n", from + 1)
             dataEnd == IF nameEnd = 0 THEN 0 ELSE IndexOf(text, "\n\n", nameEnd + 2)
         IN  IF nameEnd # 0 /\ dataEnd # 0 /\ text[nameEnd + 1] = "data: "
             THEN << [name |-> SubSeq(text, from + 1, nameEnd - 1),
                      data |-> SubSeq(text, nameEnd + 2, dataEnd - 1)] >>
                  \o ParseEventsFrom(text, dataEnd + 1)
             ELSE <<>>

ParseEvents(text) == ParseEventsFrom(text, 1)

\* The events written to the connection of request id.
Events(id) == ParseEvents(Flatten(res[id].body))

\* The events of a sequence that carry one of the given names.
Named(events, names) == SelectSeq(events, LAMBDA e : e.name \in names)

TerminalNames == {<<"result">>, <<"error">>}

\* The request has reached the server: its handler has started.
Received(id) == pc[id] # "idle"

\* The request has been handled: its handler ran to its end.
Handled(id) == pc[id] = "done"

-----------------------------------------------------------------------------
(* Claims *)

\* C1: a request with a non-empty prompt never has more than one terminal
\* event (result or error) on its connection, and once its handler has
\* completed, whatever upstream did, it has exactly one.
C1_ExactlyOneTerminalEvent ==
    \A id \in RequestIds :
        ~MissingPrompt(query[id]) =>
            LET terminal == Named(Events(id), TerminalNames)
            IN  /\ Len(terminal) <= 1
                /\ Handled(id) => Len(terminal) = 1

\* C1 witness: a request with a prompt whose upstream made progress callbacks
\* and then settled, handled with one terminal event.
C1_Witness ==
    \E id \in RequestIds :
        /\ ~MissingPrompt(query[id])
        /\ Handled(id)
        /\ Len(updates[id]) = MaxUpdates
        /\ subscription[id].state = "rejected"
        /\ Len(Named(Events(id), TerminalNames)) = 1


\* C2: a request whose prompt is absent or empty never reaches upstream
\* (fal.subscribe is not called for it), and once handled its connection
\* carries an error event.
C2_MissingPromptNoUpstream ==
    \A id \in RequestIds :
        (Received(id) /\ Prop(query[id], "prompt") \in {undefined, Str(<<>>)}) =>
            /\ subscribed[id] = <<>>
            /\ subscription[id].state = "none"
            /\ Handled(id)
            /\ Len(Named(Events(id), {<<"error">>})) >= 1

\* C2 witness: the key is configured and a request with an empty prompt has
\* been handled.
C2_Witness ==
    \E id \in RequestIds :
        /\ Truthy(env)
        /\ Handled(id)
        /\ Prop(query[id], "prompt") = Str(<<>>)
        /\ subscribed[id] = <<>>

\* C3: when FAL_KEY is absent (unset or empty) a request is handled in one
\* step: exactly one event, an error event, is on its connection,
\* fal.subscribe was not called, and the response has been ended.
C3_MissingKeyErrorAndClose ==
    \A id \in RequestIds :
        (Received(id) /\ env \in {undefined, Str(<<>>)}) =>
            /\ Handled(id)
            /\ Len(Events(id)) = 1
            /\ Head(Events(id)).name = <<"error">>
            /\ subscribed[id] = <<>>
            /\ res[id].writableEnded
            /\ res[id].endCalls = 1

\* C3 witness: a request that carries a prompt, handled while FAL_KEY is
\* absent.
C3_Witness ==
    \E id \in RequestIds :
        /\ ~Truthy(env)
        /\ Handled(id)
        /\ ~MissingPrompt(query[id])
        /\ res[id].writableEnded

\* C4: res.end() is executed at most once per request on every path and no
\* response call raises a fault; on an ended response the close step changes
\* nothing, so running it twice is running it once, and running the
\* exception handler and the close step after the close writes no event.
C4_IdempotentClose ==
    \A id \in RequestIds :
        /\ res[id].endCalls <= 1
        /\ res[id].faults = 0
        /\ res[id].writableEnded => Finally(res[id]) = res[id]
        /\ Finally(Finally(res[id])) = Finally(res[id])
        /\ res[id].writableEnded =>
              \A error \in Rejections : Finally(Catch(res[id], error)) = res[id]

\* C4 witness: a request closed after an upstream rejection, with progress
\* callbacks arriving after the close.
C4_Witness ==
    \E id \in RequestIds :
        /\ Handled(id)
        /\ subscription[id].state = "rejected"
        /\ res[id].endCalls = 1
        /\ late[id] > 0

\* C5: once a response has ended nothing more is written to it and no write
\* is attempted on it, also when upstream calls back after the close; and
\* no write leaves a result event after an error event.
C5_NothingAfterClose ==
    [][\A id \in RequestIds :
          /\ res[id].writableEnded =>
                /\ res'[id].body = res[id].body
                /\ res'[id].faults = res[id].faults
                /\ res'[id].writableEnded
          /\ res'[id].body # res[id].body =>
                LET terminal == Named(ParseEvents(Flatten(res'[id].body)), TerminalNames)
                IN  \A i, j \in 1..Len(terminal) :
                       (terminal[i].name = <<"error">> /\ terminal[j].name = <<"result">>)
                           => j < i]_vars

\* C5 witness: upstream has called back on a response that had ended after
\* an error event.
C5_Witness ==
    \E id \in RequestIds :
        /\ res[id].writableEnded
        /\ late[id] > 0
        /\ Len(Named(Events(id), {<<"error">>})) = 1

\* C6: a terminal event is the last event on its connection, and the
\* response is ended in the step that writes it: no status or log event
\* comes between the terminal event and the close, or after it.
C6_TerminalEventIsLast ==
    \A id \in RequestIds :
        LET events == Events(id)
        IN  \A i \in 1..Len(events) :
                events[i].name \in TerminalNames =>
                    /\ i = Len(events)
                    /\ res[id].writableEnded

\* C6 witness: progress callbacks before and after the handler completed
\* with a result event.
C6_Witness ==
    \E id \in RequestIds :
        /\ Handled(id)
        /\ Len(updates[id]) > 0
        /\ late[id] > 0
        /\ Events(id) # <<>>
        /\ Events(id)[Len(Events(id))].name = <<"result">>


-----------------------------------------------------------------------------
(* The events a progress update is to produce, written out as text *)

StatusEvent(update) ==
    [name |-> <<"status">>,
     data |-> <<"{", "\"", "status", "\"", ":", "\"">> \o update.status.value \o <<"\"", "}">>]

LogEvent(entry) ==
    [name |-> <<"log">>,
     data |-> <<"{", "\"", "message", "\"", ":", "\"">>
              \o Get(entry, <<"message">>).value \o <<"\"", "}">>]

\* The log entries of an update that are to be relayed.
RelayedLogs(update) ==
    IF update.status.value = <<"IN_PROGRESS">> /\ update.logs.type = "array"
    THEN update.logs.value
    ELSE <<>>

UpdateEvents(update) ==
    <<StatusEvent(update)>>
    \o [n \in 1..Len(RelayedLogs(update)) |-> LogEvent(RelayedLogs(update)[n])]

RECURSIVE UpdatesEvents(_)
UpdatesEvents(us) ==
    IF us = <<>> THEN <<>> ELSE UpdateEvents(Head(us)) \o UpdatesEvents(Tail(us))

\* The number of status events among the first i of the events.
StatusesUpTo(events, i) ==
    Cardinality({j \in 1..i : events[j].name = <<"status">>})

\* C7: every log event on a connection lies after the status event of the
\* update it comes from and before the status event of the next update, and
\* every log entry an update relays lies there.
C7_LogsFollowTheirStatus ==
    \A id \in RequestIds :
        LET events == Events(id)
        IN  /\ \A i \in 1..Len(events) :
                  events[i].name = <<"log">> =>
                      LET k == StatusesUpTo(events, i)
                      IN  /\ k \in 1..Len(updates[id])
                          /\ \E n \in 1..Len(RelayedLogs(updates[id][k])) :
                                events[i] = LogEvent(RelayedLogs(updates[id][k])[n])
            /\ \A k \in 1..Len(updates[id]) :
                  \A n \in 1..Len(RelayedLogs(updates[id][k])) :
                      \E i \in 1..Len(events) :
                          /\ events[i] = LogEvent(RelayedLogs(updates[id][k])[n])
                          /\ StatusesUpTo(events, i) = k

\* C7 witness: two updates in progress, each with two log entries, relayed
\* as status, log, log, status, log, log.
C7_Witness ==
    \E id \in RequestIds :
        /\ Len(updates[id]) = 2
        /\ Len(RelayedLogs(updates[id][1])) = 2
        /\ Len(RelayedLogs(updates[id][2])) = 2
        /\ Len(Events(id)) = 6
        /\ Events(id)[4].name = <<"status">>

\* C8: a progress callback on an open connection appends one status event
\* carrying the update's status, followed, when the status is IN_PROGRESS
\* and the update has logs, by one log event per log entry in upstream's
\* order, and by no log event otherwise.
C8_OneStatusThenItsLogs ==
    [][\A id \in RequestIds :
          updates'[id] # updates[id] =>
              ParseEvents(Flatten(res'[id].body)) =
                  Events(id) \o UpdateEvents(updates'[id][Len(updates'[id])])]_vars

\* C8 witness: an update in progress with two log entries and an update of
\* another status that carries logs have both been relayed.
C8_Witness ==
    \E id \in RequestIds :
        /\ Len(updates[id]) = 2
        /\ Len(RelayedLogs(updates[id][1])) = 2
        /\ updates[id][2].status # Str(<<"IN_PROGRESS">>)
        /\ updates[id][2].logs.type = "array"
        /\ Len(updates[id][2].logs.value) = 2
        /\ Len(Events(id)) = 4

\* C9: the events on the connection of a request that reached upstream are
\* the events of the updates upstream delivered, in upstream's order, then,
\* once the handler has completed, one terminal event (the result event with
\* the result upstream resolved with, or an error event) and the close.
C9_EventsInUpstreamOrder ==
    \A id \in RequestIds :
        subscription[id].state # "none" =>
            LET events == Events(id)
                relayed == UpdatesEvents(updates[id])
            IN  IF Handled(id)
                THEN /\ Len(events) = Len(relayed) + 1
                     /\ SubSeq(events, 1, Len(events) - 1) = relayed
                     /\ IF subscription[id].state = "resolved"
                        THEN events[Len(events)] =
                                 [name |-> <<"result">>,
                                  data |-> JSONstringify(subscription[id].value)]
                        ELSE events[Len(events)].name = <<"error">>
                     /\ res[id].writableEnded
                ELSE /\ events = relayed
                     /\ ~res[id].writableEnded

\* C9 witness: upstream made two status updates and resolved with one image:
\* two status events, one result event, connection closed.
C9_Witness ==
    \E id \in RequestIds :
        /\ Handled(id)
        /\ subscription[id].state = "resolved"
        /\ Len(updates[id]) = 2
        /\ Len(Events(id)) = 3
        /\ Len(Named(Events(id), {<<"status">>})) = 2
        /\ Events(id)[3].name = <<"result">>
        /\ res[id].writableEnded

\* C10: when upstream rejects after k updates, the handled request's
\* connection carries k status events with their logs, then exactly one
\* error event and no result event, and is closed.
C10_RejectionEndsWithOneError ==
    \A id \in RequestIds :
        (Handled(id) /\ subscription[id].state = "rejected") =>
            LET events == Events(id)
            IN  /\ Len(Named(events, {<<"status">>})) = Len(updates[id])
                /\ Named(events, {<<"status">>, <<"log">>}) = UpdatesEvents(updates[id])
                /\ Len(Named(events, {<<"error">>})) = 1
                /\ Named(events, {<<"result">>}) = <<>>
                /\ events[Len(events)].name = <<"error">>
                /\ res[id].writableEnded

\* C10 witness: upstream rejected after one status update: one status event
\* then one error event.
C10_Witness ==
    \E id \in RequestIds :
        /\ Handled(id)
        /\ subscription[id].state = "rejected"
        /\ Len(updates[id]) = 1
        /\ Len(Events(id)) = 2
        /\ Events(id)[1].name = <<"status">>
        /\ Events(id)[2].name = <<"error">>


\* proxy.ts serves a request and a statement of its setup raises.
TsHandlerFault(id) ==
    /\ deployed = "proxy.ts"
    /\ id \in incoming
    /\ \E q \in Queries, at \in FaultPoints :
          LET s == TsTryFault(q, at)
          IN  Started(id, q, s, Finally(TsCatch(s.res, s.error)))

\* proxy.js serves a request and a statement of its setup raises: the
\* handler returned early before the statement, or it ends there with an
\* unhandled rejection.
JsHandlerFault(id) ==
    /\ deployed = "proxy.js"
    /\ id \in incoming
    /\ \E q \in Queries, at \in FaultPoints :
          LET s == JsSetupFault(q, at)
          IN  IF s.outcome = "unhandled"
              THEN /\ incoming' = incoming \ {id}
                   /\ query' = [query EXCEPT ![id] = q]
                   /\ credentials' = s.credentials
                   /\ res' = [res EXCEPT ![id] = s.res]
                   /\ pc' = [pc EXCEPT ![id] = "unhandled"]
                   /\ UNCHANGED <<client, env, deployed, subscription, subscribed, updates, late>>
              ELSE Started(id, q, s, s.res)

\* sendEvent when JSON.stringify(data) raises: the event line has been
\* written, the data line is not.
sendEventFault(r, eventName) ==
    IF ~r.writableEnded THEN write(r, EventLine(eventName)) ELSE r

\* The handler after the await when sending the result raises: the catch
\* block, then the finally block.
AfterAwaitFault(r) ==
    Finally(Catch(sendEventFault(r, <<"result">>), Fault("JSON.stringify")))

\* The handler resumes with a result that JSON.stringify rejects (a value
\* holding a BigInt or a cycle).
ResumeFault(id) ==
    /\ pc[id] = "awaiting"
    /\ subscription[id].state = "resolved"
    /\ res' = [res EXCEPT ![id] = AfterAwaitFault(@)]
    /\ pc' = [pc EXCEPT ![id] = "done"]
    /\ UNCHANGED <<client, env, credentials, deployed, incoming, query, subscription,
                   subscribed, updates, late>>

NextFaults ==
    \/ Next
    \/ \E id \in RequestIds : TsHandlerFault(id)
    \/ \E id \in RequestIds : JsHandlerFault(id)
    \/ \E id \in RequestIds : ResumeFault(id)

\* The proxy with setup statements that may raise.
SpecFaults == Init /\ [][NextFaults]_vars

\* proxy.ts serves a request carrying any of the parameters.
TsHandlerParams(id) ==
    /\ deployed = "proxy.ts"
    /\ id \in incoming
    /\ \E q \in ParamQueries :
          LET s == TsTry(q)
          IN  Started(id, q, s, IF s.outcome = "throw"
                             THEN Finally(TsCatch(s.res, s.error))
                             ELSE s.res)

\* proxy.js serves a request carrying any of the parameters.
JsHandlerParams(id) ==
    /\ deployed = "proxy.js"
    /\ id \in incoming
    /\ \E q \in ParamQueries :
          LET s == JsSetup(q)
          IN  Started(id, q, s, s.res)

NextParams ==
    \/ \E id \in RequestIds : TsHandlerParams(id)
    \/ \E id \in RequestIds : JsHandlerParams(id)
    \/ \E id \in RequestIds : Resolve(id)
    \/ \E id \in RequestIds : Reject(id)
    \/ \E id \in RequestIds : Resume(id)

\* The proxy over requests carrying any of the parameters, with an upstream
\* that settles without progress updates.
SpecParams == Init /\ [][NextParams]_vars

\* The chunks of the response of request id that were written while its
\* client was still connected.
Transmitted(id) == SubSeq(res[id].body, 1, Len(res[id].body) - res[id].lost)

\* C11: once the client of a connection has disconnected, sendEvent performs
\* no write on it: res.write is not called again for that response.
C11_NoWriteAfterDisconnect ==
    [][\A id \in RequestIds :
          res[id].destroyed => res'[id].body = res[id].body]_vars

\* C12: when the client has disconnected mid-stream, no write attempt and no
\* close raises a fault whatever upstream does afterwards, res.end() is never
\* run twice, and once upstream has settled and the handler has resumed the
\* close path has run exactly once and the response is ended.
C12_DisconnectIsHarmless ==
    \A id \in RequestIds :
        res[id].destroyed =>
            /\ res[id].faults = 0
            /\ res[id].endCalls <= 1
            /\ Handled(id) => (res[id].endCalls = 1 /\ res[id].writableEnded)
            /\ ~Handled(id) => (res[id].endCalls = 0 /\ ~res[id].writableEnded)

\* C12 witness: the client disconnected right after the first status event,
\* upstream made another update and settled, and the handler has completed
\* with writes attempted after the disconnect.
C12_Witness ==
    \E id \in RequestIds :
        /\ res[id].destroyed
        /\ Len(updates[id]) = 2
        /\ ParseEvents(Flatten(Transmitted(id))) = <<StatusEvent(updates[id][1])>>
        /\ res[id].lost >= 4
        /\ Handled(id)
        /\ res[id].endCalls = 1


\* C13: every failure raised in the request lifecycle, from header setup to
\* upstream settlement, is caught inside the handler: no handler terminates
\* with an unhandled fault, and a handler that completed without a resolved
\* upstream call sent exactly one error event, as its last event, and ended
\* the response.
C13_EveryFailureCaught ==
    \A id \in RequestIds :
        /\ pc[id] # "unhandled"
        /\ (Handled(id) /\ subscription[id].state # "resolved") =>
              LET events == Events(id)
              IN  /\ Len(Named(events, TerminalNames)) = 1
                  /\ events[Len(events)].name = <<"error">>
                  /\ res[id].endCalls = 1
                  /\ res[id].faults = 0


\* The parameters the handler converts to integers.
IntegerKeys == {"seed", "num_images"}

\* The inputs request id passed to fal.subscribe.
Inputs(id) == {subscribed[id][i] : i \in 1..Len(subscribed[id])}

\* C14: when seed or num_images is present but is not parseable as a
\* base-10 integer, either no upstream call is made or the field is absent
\* from the payload passed to fal.subscribe; whatever is forwarded for seed
\* or num_images is an integer.
C14_UnparseableNeverForwarded ==
    \A id \in RequestIds : \A input \in Inputs(id) : \A k \in IntegerKeys :
        /\ (k \in DOMAIN query[id] /\ parseInt(query[id][k]) = NaN) =>
              k \notin DOMAIN input
        /\ k \in DOMAIN input => input[k].type = "number"

\* C15: whenever seed or num_images is present in the query, the empty
\* string and "0" included, the value passed upstream for that key is the
\* integer parsed from the string, not the original string.
C15_PresentIsParsed ==
    \A id \in RequestIds : \A input \in Inputs(id) : \A k \in IntegerKeys :
        k \in DOMAIN query[id] =>
            /\ k \in DOMAIN input
            /\ input[k] = parseInt(query[id][k])
            /\ input[k] # query[id][k]

\* C16: every query parameter other than seed and num_images appears in the
\* payload passed to fal.subscribe with the key and value it had in the
\* query, and the payload has exactly the keys of the query.
C16_OthersPassThrough ==
    \A id \in RequestIds : \A input \in Inputs(id) :
        /\ DOMAIN input = DOMAIN query[id]
        /\ \A k \in DOMAIN query[id] \ IntegerKeys : input[k] = query[id][k]

\* C16 witness: a request with all five parameters reached upstream.
C16_Witness ==
    \E id \in RequestIds : \E input \in Inputs(id) :
        /\ DOMAIN query[id] = ParamKeys
        /\ input["style"] = Str(<<"bar">>)
        /\ input["image_size"] = Str(<<"landscape_16_9">>)
        /\ input["prompt"] = Str(<<"red dragon">>)
        /\ input["seed"] = Num(42)


\* C17: the payload of a result event is the JSON text of exactly the object
\* upstream resolved with: parsed by the client it is that object again,
\* every field included, and a handled request whose upstream resolved has
\* one such event.
C17_ResultDeliveredUnchanged ==
    \A id \in RequestIds :
        LET results == Named(Events(id), {<<"result">>})
        IN  /\ \A i \in 1..Len(results) :
                  /\ subscription[id].state = "resolved"
                  /\ results[i].data = JSONstringify(subscription[id].value)
                  /\ JSONparse(results[i].data) = subscription[id].value
            /\ (Handled(id) /\ subscription[id].state = "resolved") =>
                  Len(results) = 1

\* C17 witness: upstream made progress updates and resolved with one image,
\* and the client reads the url of the image from the payload it parsed.
C17_Witness ==
    \E id \in RequestIds :
        LET results == Named(Events(id), {<<"result">>})
        IN  /\ Len(updates[id]) > 0
            /\ Len(results) = 1
            /\ LET images == Get(Get(JSONparse(results[1].data), <<"data">>), <<"images">>)
               IN  /\ images.type = "array"
                   /\ Len(images.value) = 1
                   /\ Get(images.value[1], <<"url">>) = Str(<<"https://fal.media/x.png">>)


\* C18: fal.subscribe is invoked at most once per request: a request that
\* reached upstream made exactly one call, also after upstream failed and
\* the handler completed, and a request that did not reach upstream made
\* none.
C18_OneUpstreamCall ==
    \A id \in RequestIds :
        /\ Len(subscribed[id]) <= 1
        /\ subscription[id].state # "none" <=> Len(subscribed[id]) = 1
        /\ pc[id] = "awaiting" => Len(subscribed[id]) = 1

\* C18 witness: upstream rejected, the handler sent the error event and
\* completed, and one call was made.
C18_Witness ==
    \E id \in RequestIds :
        /\ subscription[id].state = "rejected"
        /\ Handled(id)
        /\ Len(Named(Events(id), {<<"error">>})) = 1
        /\ Len(subscribed[id]) = 1


\* The headers of an event stream response: event-stream content type, no
\* caching, keep-alive, any origin allowed.
RequiredHeaders ==
    {<<"Content-Type", "text/event-stream">>, <<"Cache-Control", "no-cache">>,
     <<"Connection", "keep-alive">>, <<"Access-Control-Allow-Origin", "*">>}

\* The headers that went out on the connection of request id.
HeadersSent(id) == {res[id].head[i] : i \in 1..Len(res[id].head)}

\* C19: the stream headers are set and flushed before the credential check,
\* before parameter normalization, before any upstream call and before any
\* event byte: as soon as a request has reached the handler, whether or not
\* it passes the checks, its headers have been sent, they are the stream
\* headers, no header was set after they went out, and this holds while the
\* body is still empty and the upstream call is pending.
C19_HeadersFlushedFirst ==
    \A id \in RequestIds :
        /\ Received(id) =>
              /\ res[id].headersSent
              /\ RequiredHeaders \subseteq HeadersSent(id)
              /\ res[id].head = res[id].headers
              /\ res[id].faults = 0
        /\ (res[id].body # <<>> \/ subscribed[id] # <<>>) =>
              RequiredHeaders \subseteq HeadersSent(id)

\* C19 witness: the upstream call is pending and no event byte has been
\* written, and the stream headers have been sent.
C19_Witness ==
    \E id \in RequestIds :
        /\ pc[id] = "awaiting"
        /\ Len(subscribed[id]) = 1
        /\ res[id].body = <<>>
        /\ res[id].headersSent
        /\ RequiredHeaders \subseteq HeadersSent(id)


\* The texts by which the handlers say that the prompt is missing.
PromptRequired ==
    {Str(<<"A 'prompt' is required.">>),
     Str(<<"A 'prompt' is required in the query parameters.">>)}

\* The connection of request id carries one event, an error event, and has
\* been closed, and upstream was never called.
OnlyAnErrorThenClose(id) ==
    /\ Len(Events(id)) = 1
    /\ Events(id)[1].name = <<"error">>
    /\ res[id].writableEnded
    /\ res[id].endCalls = 1
    /\ subscribed[id] = <<>>

\* C20 as stated: for a handled request with no prompt the client observes
\* exactly one error event whose message field says that the prompt is
\* missing, and the connection is closed with no status, log or result
\* event.
C20_MessageSaysPromptMissing ==
    \A id \in RequestIds :
        (Handled(id) /\ MissingPrompt(query[id])) =>
            /\ OnlyAnErrorThenClose(id)
            /\ Get(JSONparse(Events(id)[1].data), <<"message">>) \in PromptRequired

\* C20 amended: for a handled request with no prompt on a server whose
\* credential is configured, the client observes exactly one error event
\* whose payload says that the prompt is required, in its message field
\* under proxy.js and in its details field, next to a generic message, under
\* proxy.ts; the connection is closed with no status, log or result event.
C20_PayloadSaysPromptMissing ==
    \A id \in RequestIds :
        (Handled(id) /\ MissingPrompt(query[id]) /\ ~MissingApiKey(env)) =>
            /\ OnlyAnErrorThenClose(id)
            /\ LET payload == JSONparse(Events(id)[1].data)
               IN  IF deployed = "proxy.js"
                   THEN /\ Get(payload, <<"message">>) \in PromptRequired
                        /\ Get(payload, <<"details">>) = undefined
                   ELSE /\ Get(payload, <<"message">>)
                              = Str(<<"A critical error occurred on the server.">>)
                        /\ Get(payload, <<"details">>) \in PromptRequired

\* C20 witness: proxy.ts handled a request whose prompt is the empty string
\* and the details of its error event say that a prompt is required.
C20_Witness ==
    \E id \in RequestIds :
        /\ deployed = "proxy.ts"
        /\ Handled(id)
        /\ "prompt" \in DOMAIN query[id]
        /\ MissingPrompt(query[id])
        /\ Len(Events(id)) = 1
        /\ Get(JSONparse(Events(id)[1].data), <<"details">>)
              = Str(<<"A 'prompt' is required in the query parameters.">>)
        /\ res[id].writableEnded


-----------------------------------------------------------------------------
(* Progress *)

\* The proxy on an event loop that runs what is ready: a request that has
\* arrived is served, and a handler whose awaited promise has settled is
\* resumed.  Nothing is assumed of upstream.
SpecLive ==
    /\ Init
    /\ [][Next]_vars
    /\ \A id \in RequestIds :
          /\ WF_vars(TsHandler(id))
          /\ WF_vars(JsHandler(id))
          /\ WF_vars(Resume(id))

\* The promise of fal.subscribe of request id has settled.
Settled(id) == subscription[id].state \in {"resolved", "rejected"}

\* C21: once the upstream subscription of a request has settled, its
\* connection is eventually closed; a request that never reached upstream
\* is closed when its handler returns; and a connection is closed only after
\* its terminal event has been written.
C21_EventuallyClosedAfterTerminal ==
    /\ \A id \in RequestIds : Settled(id) ~> res[id].writableEnded
    /\ [](\A id \in RequestIds :
             /\ Received(id) => (pc[id] = "awaiting" \/ res[id].writableEnded)
             /\ res[id].writableEnded =>
                   Len(Named(Events(id), TerminalNames)) = 1)

\* C21 witness: upstream rejected after a progress update and the
\* connection is closed, with the error event written.
C21_Witness ==
    \E id \in RequestIds :
        /\ Settled(id)
        /\ subscription[id].state = "rejected"
        /\ Len(updates[id]) > 0
        /\ res[id].writableEnded
        /\ Len(Named(Events(id), {<<"error">>})) = 1


-----------------------------------------------------------------------------
(* Two requests in flight *)

\* Both requests arrive; each handler invocation has its own req and res.
InitConcurrent ==
    /\ ClientMounted
    /\ env \in ApiKeys
    /\ credentials = undefined
    /\ deployed \in Modules
    /\ incoming = RequestIds
    /\ query = [id \in RequestIds |-> << >>]
    /\ pc = [id \in RequestIds |-> "idle"]
    /\ res = [id \in RequestIds |-> NewResponse]
    /\ subscription = [id \in RequestIds |-> NotSubscribed]
    /\ subscribed = [id \in RequestIds |-> <<>>]
    /\ updates = [id \in RequestIds |-> <<>>]
    /\ late = [id \in RequestIds |-> 0]

\* What upstream reports for request id: its updates and its result name
\* the request, so that an event on the wrong connection shows.
OwnUpdate(id) ==
    [status |-> Str(<<"IN_PROGRESS">>),
     logs |-> Arr(<< Obj(<< << <<"message">>, Str(<<"request ", ToString(id)>>) >> >>) >>)]

OwnResult(id) ==
    Obj(<< << <<"data">>,
              Obj(<< << <<"images">>,
                        Arr(<< Obj(<< << <<"url">>,
                                         Str(<<"https://fal.media/", ToString(id), ".png">>) >> >>) >>) >> >>) >>,
           << <<"requestId">>, Str(<<"req-", ToString(id)>>) >> >>)

\* The request that arrived last among those received.
LastReceived == CHOOSE j \in RequestIds : Received(j) /\ \A k \in RequestIds : Received(k) => k <= j

\* A callback that writes to a response kept in a module-level variable,
\* which the handler that started last has overwritten.
OwnQueueUpdateShared(id) ==
    /\ pc[id] = "awaiting"
    /\ Len(updates[id]) < MaxConcurrentUpdates
    /\ res' = [res EXCEPT ![LastReceived] = onQueueUpdate(@, OwnUpdate(id))]
    /\ updates' = [updates EXCEPT ![id] = Append(@, OwnUpdate(id))]
    /\ UNCHANGED <<client, env, credentials, deployed, incoming, query, pc, subscription,
                   subscribed, late>>

\* Upstream calls the onQueueUpdate callback of request id: the closure
\* holds the res of its own handler invocation.
OwnQueueUpdate(id) ==
    /\ pc[id] = "awaiting"
    /\ Len(updates[id]) < MaxConcurrentUpdates
    /\ res' = [res EXCEPT ![id] = onQueueUpdate(@, OwnUpdate(id))]
    /\ updates' = [updates EXCEPT ![id] = Append(@, OwnUpdate(id))]
    /\ UNCHANGED <<client, env, credentials, deployed, incoming, query, pc, subscription,
                   subscribed, late>>

\* The promise of fal.subscribe of request id resolves with its result.
OwnResolve(id) ==
    /\ subscription[id].state = "pending"
    /\ subscription' = [subscription EXCEPT ![id] = [state |-> "resolved", value |-> OwnResult(id)]]
    /\ UNCHANGED <<client, env, credentials, deployed, incoming, query, pc, res, subscribed,
                   updates, late>>

NextConcurrent ==
    \/ \E id \in RequestIds : TsHandler(id)
    \/ \E id \in RequestIds : JsHandler(id)
    \/ \E id \in RequestIds : OwnQueueUpdate(id)
    \/ \E id \in RequestIds : OwnResolve(id)
    \/ \E id \in RequestIds : Reject(id)
    \/ \E id \in RequestIds : Resume(id)

\* The proxy serving two requests whose steps interleave at the awaits.
SpecConcurrent == InitConcurrent /\ [][NextConcurrent]_vars

\* C22: with two requests in flight, the status and log events on the
\* connection of a request are those of its own updates, in order; a result
\* event on it carries its own result; it has one terminal event once its
\* own handler has completed and none before; and it is closed once, by its
\* own handler, and not before that handler has completed.
C22_OwnConnectionOnly ==
    \A id \in RequestIds :
        LET events == Events(id)
            results == Named(events, {<<"result">>})
        IN  /\ Named(events, {<<"status">>, <<"log">>}) = UpdatesEvents(updates[id])
            /\ \A i \in 1..Len(results) :
                  /\ subscription[id].state = "resolved"
                  /\ results[i].data = JSONstringify(OwnResult(id))
            /\ Len(Named(events, TerminalNames)) = IF Handled(id) THEN 1 ELSE 0
            /\ res[id].endCalls = IF Handled(id) THEN 1 ELSE 0
            /\ res[id].writableEnded <=> Handled(id)
            /\ res[id].faults = 0

\* C22 witness: both requests are suspended at their await, upstream has
\* reported progress for both, and one has resolved.
C22_Witness ==
    \E id, other \in RequestIds :
        /\ id # other
        /\ pc[id] = "awaiting" /\ pc[other] = "awaiting"
        /\ Len(updates[id]) = 1 /\ Len(updates[other]) = 1
        /\ subscription[id].state = "resolved"
        /\ Len(Events(id)) = 2 /\ Len(Events(other)) = 2


\* C23: the configuration of the upstream client is read-only after
\* initialization: no step of request handling writes it.
C23_ConfigurationReadOnly == [][credentials' = credentials]_vars


\* The texts by which the handlers say that the credential is missing.
CredentialMissing ==
    {Str(<<"FAL_KEY environment variable not found on server.">>),
     Str(<<"API key not configured on the server.">>)}

\* C26: the credential check precedes the prompt check: a handled request
\* on a server without credential, its prompt missing or not, has a single
\* error event that reports the missing credential (in details under
\* proxy.ts, in message under proxy.js) and nothing about the prompt, and
\* fal.config is never called there: the client stays unconfigured.
C26_CredentialCheckedFirst ==
    MissingApiKey(env) =>
        /\ credentials = undefined
        /\ \A id \in RequestIds :
              Handled(id) =>
                  /\ OnlyAnErrorThenClose(id)
                  /\ LET payload == JSONparse(Events(id)[1].data)
                         told == IF deployed = "proxy.ts"
                                 THEN Get(payload, <<"details">>)
                                 ELSE Get(payload, <<"message">>)
                     IN  /\ told \in CredentialMissing
                         /\ told \notin PromptRequired

\* C26 witness: a request without prompt was handled on a server without
\* credential, and its error event reports the credential.
C26_Witness ==
    \E id \in RequestIds :
        /\ env = undefined
        /\ Handled(id)
        /\ "prompt" \notin DOMAIN query[id]
        /\ Len(Events(id)) = 1
        /\ \E k \in {<<"details">>, <<"message">>} :
              Get(JSONparse(Events(id)[1].data), k) \in CredentialMissing
        /\ credentials = undefined


\* The event names whose event line was written to the connection of
\* request id, in the order written.
EventLinesWritten(id) ==
    LET lines == SelectSeq(res[id].body, LAMBDA chunk : Head(chunk) = "event: ")
    IN  [i \in 1..Len(lines) |-> SubSeq(lines[i], 2, Len(lines[i]) - 1)]

\* C25: a result event and an error event never both appear on one
\* connection, whatever raises and wherever: no connection has the event
\* line of a result event written and, after it, the event line of an
\* error event.
C25_NoErrorAfterResult ==
    \A id \in RequestIds :
        LET names == EventLinesWritten(id)
        IN  \A i, j \in 1..Len(names) :
                i < j => ~(names[i] = <<"result">> /\ names[j] = <<"error">>)


-----------------------------------------------------------------------------
(* The browser client (App.tsx) *)

RECURSIVE TrimEnd(_)
TrimEnd(s) ==
    IF s # <<>> /\ IsWhiteSpace(s[Len(s)]) THEN TrimEnd(SubSeq(s, 1, Len(s) - 1)) ELSE s

\* A trim that strips the leading white space only.
trimStartOnly(s) == TrimStart(s)

\* value.trim()
trim(s) == TrimEnd(TrimStart(s))

\* encodeURIComponent, character by character.
PercentEncode(c) ==
    CASE c = " " -> "%20"
      [] c = "&" -> "%26"
      [] c = "+" -> "%2B"
      [] c = "=" -> "%3D"
      [] c = "%" -> "%25"
      [] OTHER -> c

encodeURIComponent(s) == [i \in 1..Len(s) |-> PercentEncode(s[i])]

\* The character a character of a query string stands for.
PercentDecode(c) ==
    CASE c = "%20" -> " "
      [] c = "%26" -> "&"
      [] c = "%2B" -> "+"
      [] c = "%3D" -> "="
      [] c = "%25" -> "%"
      [] c = "+" -> " "
      [] OTHER -> c

\* req.query.prompt of the request a url makes: the text after
\* "/api/proxy?prompt=" up to the next "&", decoded.
PromptOfUrl(url) ==
    LET amp == IndexOf(url, "&", 2)
        raw == SubSeq(url, 2, IF amp = 0 THEN Len(url) ELSE amp - 1)
    IN  [i \in 1..Len(raw) |-> PercentDecode(raw[i])]

\* The fallback image of a design.
Placeholder == Str(<<"/tex-default-preview.png">>)

\* What the user may submit: nothing, white space, a prompt with white
\* space around it, a prompt with characters a url reserves.
Texts ==
    {<<>>, <<" ", "\t">>, <<" ", "red", " ", "dragon", " ">>, <<"a", "+", "b", "&", "c">>}

\* A closeConnection that leaves the EventSource open.
closeConnectionForgotten(source) == source

\* closeConnection(): close the EventSource and drop it, if there is one.
closeConnection(source) ==
    IF source.eventSource # null
    THEN [source EXCEPT !.eventSource = null, !.readyState = "CLOSED", !.closeCalls = @ + 1]
    ELSE source

\* generateImageWithFal up to the listeners: new EventSource(url) opens the
\* connection.  received holds the events dispatched to its listeners.
generateImageWithFal(prompt, designId) ==
    [designId |-> designId,
     url |-> <<"/api/proxy?prompt=">> \o encodeURIComponent(prompt),
     eventSource |-> Str(<<"EventSource">>),
     readyState |-> "OPEN",
     connections |-> 1,
     closeCalls |-> 0,
     received |-> <<>>]

\* An update that sets the image and leaves isLoading as it is.
SetImageOnly(prevDesigns, designId, imageUrl) ==
    [i \in 1..Len(prevDesigns) |->
        IF prevDesigns[i].id = designId
        THEN [prevDesigns[i] EXCEPT !.imageUrl = imageUrl]
        ELSE prevDesigns[i]]

\* prevDesigns.map(design => design.id === designId ? {...design, isLoading: false, imageUrl} : design)
SetImage(prevDesigns, designId, imageUrl) ==
    [i \in 1..Len(prevDesigns) |->
        IF prevDesigns[i].id = designId
        THEN [prevDesigns[i] EXCEPT !.isLoading = FALSE, !.imageUrl = imageUrl]
        ELSE prevDesigns[i]]

\* value?.[key] and value?.[index]
OptGet(v, key) == IF v.type = "object" THEN Get(v, key) ELSE undefined

OptAt(v, i) == IF v.type = "array" /\ i <= Len(v.value) THEN v.value[i] ELSE undefined

\* result.data?.images?.[0]?.url
ImageUrlOf(result) ==
    OptGet(OptAt(OptGet(OptGet(result, <<"data">>), <<"images">>), 1), <<"url">>)


\* handleTextInputSubmit(value)
handleTextInputSubmit ==
    /\ Len(submitted) < MaxSubmissions
    /\ \E value \in Texts :
          /\ submitted' = Append(submitted, value)
          /\ IF Truthy(Str(trim(value)))
             THEN LET newLoadingDesign ==
                          [id |-> Str(<<"loading-", ToString(now)>>),
                           imageUrl |-> Str(<<>>),
                           title |-> Str(trim(value)),
                           isLoading |-> TRUE]
                  IN  /\ designs' = <<newLoadingDesign>> \o designs
                      /\ sources' = Append(sources,
                                           generateImageWithFal(trim(value), newLoadingDesign.id))
             ELSE UNCHANGED <<designs, sources>>
    /\ UNCHANGED <<textureUrl, now, server>>

\* A millisecond passes.
Tick ==
    /\ now < MaxClock
    /\ now' = now + 1
    /\ UNCHANGED <<designs, textureUrl, sources, submitted, server>>

\* The payloads of the result events the proxy sends.
ResultPayloads == {JSONstringify(result) : result \in Results}

\* The listener for 'result' events of the k-th EventSource.
onResult(k) ==
    /\ k \in 1..Len(sources)
    /\ sources[k].readyState = "OPEN"
    /\ \E data \in ResultPayloads :
          LET result == JSONparse(data)
              imageUrl == ImageUrlOf(result)
          IN  /\ IF Truthy(imageUrl)
                 THEN /\ designs' = SetImage(designs, sources[k].designId, imageUrl)
                      /\ textureUrl' = imageUrl
                 ELSE /\ designs' = SetImage(designs, sources[k].designId, Placeholder)
                      /\ UNCHANGED textureUrl
              /\ sources' = [sources EXCEPT ![k] =
                                closeConnection([@ EXCEPT !.received =
                                    Append(@, [name |-> <<"result">>, data |-> data])])]
    /\ UNCHANGED <<now, submitted, server>>

\* What an error on the stream is: an 'error' event sent by the proxy, the
\* end of the stream, or a failure of the connection.
ErrorSubtypes == {"event", "end", "network"}

\* After the error event has been dispatched, an EventSource that was not
\* closed reconnects, unless the error was an event the proxy sent.
Reestablish(source, subtype) ==
    IF source.readyState # "CLOSED" /\ subtype # "event"
    THEN [source EXCEPT !.connections = @ + 1]
    ELSE source

\* The onerror handler of the k-th EventSource.
onerror(k) ==
    /\ k \in 1..Len(sources)
    /\ sources[k].readyState = "OPEN"
    /\ \E subtype \in ErrorSubtypes :
          /\ designs' = SetImage(designs, sources[k].designId, Placeholder)
          /\ sources' = [sources EXCEPT ![k] =
                            Reestablish(
                                closeConnection([@ EXCEPT !.received =
                                    Append(@, [name |-> <<"error">>, data |-> <<subtype>>])]),
                                subtype)]
    /\ UNCHANGED <<textureUrl, now, submitted, server>>

NextClient ==
    \/ handleTextInputSubmit
    \/ Tick
    \/ \E k \in 1..MaxSubmissions : onResult(k)
    \/ \E k \in 1..MaxSubmissions : onerror(k)

\* The browser client beside a proxy that is configured and idle.
InitClient ==
    /\ Init
    /\ env = Str(<<"fal-key">>)
    /\ deployed = "proxy.ts"

\* The browser client: submissions of the text input, and the events of
\* the streams it opened.
SpecClient == InitClient /\ [][NextClient]_vars

\* The design created for the k-th call of generateImageWithFal: designs
\* are only ever prepended, one for each call.
DesignOf(ds, k) == ds[Len(ds) - k + 1]

\* text is value without the white space at its two ends.
IsTrimmed(text, value) ==
    \E i \in 1..Len(value) + 1 : \E j \in 0..Len(value) :
        /\ text = SubSeq(value, i, j)
        /\ \A n \in 1..Len(value) : (n < i \/ n > j) => IsWhiteSpace(value[n])
        /\ text # <<>> => (~IsWhiteSpace(text[1]) /\ ~IsWhiteSpace(text[Len(text)]))

\* C29: submitting text that is empty or only white space adds no design
\* and opens no connection; submitting any other text prepends exactly one
\* loading design titled with the trimmed text and opens exactly one
\* connection, whose request carries the trimmed text as its prompt.
C29_SubmitAddsOneLoadingDesign ==
    [][Len(submitted') = Len(submitted) + 1 =>
          LET value == submitted'[Len(submitted')]
          IN  IF \A n \in 1..Len(value) : IsWhiteSpace(value[n])
              THEN designs' = designs /\ sources' = sources
              ELSE /\ Len(designs') = Len(designs) + 1
                   /\ Tail(designs') = designs
                   /\ Head(designs').title.type = "string"
                   /\ IsTrimmed(Head(designs').title.value, value)
                   /\ Head(designs').isLoading
                   /\ Len(sources') = Len(sources) + 1
                   /\ SubSeq(sources', 1, Len(sources)) = sources
                   /\ sources'[Len(sources')].connections = 1
                   /\ sources'[Len(sources')].readyState = "OPEN"
                   /\ sources'[Len(sources')].designId = Head(designs').id
                   /\ PromptOfUrl(sources'[Len(sources')].url)
                         = Head(designs').title.value]_vars

\* C29 witness: white space and then a prompt with reserved characters
\* were submitted: one design, one connection.
C29_Witness ==
    /\ Len(submitted) = 2
    /\ submitted[1] = <<" ", "\t">>
    /\ submitted[2] = <<"a", "+", "b", "&", "c">>
    /\ Len(designs) = 1
    /\ Len(sources) = 1
    /\ designs[1].title = Str(<<"a", "+", "b", "&", "c">>)


\* The submissions so far that carry a prompt.
PromptSubmissions ==
    {i \in 1..Len(submitted) : \E n \in 1..Len(submitted[i]) : ~IsWhiteSpace(submitted[i][n])}

\* C27: each submission of a prompt has exactly one EventSource, which made
\* exactly one connection to the proxy; once it has received a result event
\* or an error of any kind it is closed, by one call of close(), it receives
\* nothing more and never connects again, and closeConnection() on it
\* changes nothing.
C27_OneConnectionPerSubmission ==
    /\ Len(sources) = Cardinality(PromptSubmissions)
    /\ \A k \in 1..Len(sources) :
          /\ sources[k].connections = 1
          /\ Len(sources[k].received) <= 1
          /\ IF sources[k].received = <<>>
             THEN sources[k].readyState = "OPEN" /\ sources[k].closeCalls = 0
             ELSE /\ sources[k].readyState = "CLOSED"
                  /\ sources[k].eventSource = null
                  /\ sources[k].closeCalls = 1
                  /\ closeConnection(sources[k]) = sources[k]

\* C27 witness: two prompts were submitted; the stream of one ended without
\* a result and the other delivered a result; both are closed.
C27_Witness ==
    /\ Len(sources) = 2
    /\ sources[1].received = << [name |-> <<"error">>, data |-> <<"end">>] >>
    /\ Len(sources[2].received) = 1
    /\ sources[2].received[1].name = <<"result">>
    /\ \A k \in 1..2 : sources[k].readyState = "CLOSED" /\ sources[k].connections = 1


\* The terminal outcome the k-th EventSource has received leaves no image:
\* an error, or a result without data.images[0].url.
WithoutImage(event) ==
    \/ event.name = <<"error">>
    \/ event.name = <<"result">> /\ ~Truthy(ImageUrlOf(JSONparse(event.data)))

\* C24: once a generation request has had its terminal outcome, a result
\* event or an error of any subtype, the design created for it is not
\* loading, and never is again; and the step that handles an error, or a
\* result without an image url, leaves that design with the placeholder
\* image.
C24_NotLoadingAfterOutcome ==
    /\ [](\A k \in 1..Len(sources) :
             sources[k].received # <<>> => ~DesignOf(designs, k).isLoading)
    /\ [][\A k \in 1..Len(sources) :
             (k <= Len(sources') /\ sources'[k].received # sources[k].received) =>
                 /\ ~DesignOf(designs', k).isLoading
                 /\ WithoutImage(sources'[k].received[1]) =>
                       DesignOf(designs', k).imageUrl = Placeholder]_vars

\* C24 witness: the connection of a request failed, and its design shows
\* the placeholder image and is not loading; the design of another request,
\* submitted a millisecond later, shows the image its result carried.
C24_Witness ==
    /\ Len(sources) = 2
    /\ sources[1].received = << [name |-> <<"error">>, data |-> <<"network">>] >>
    /\ DesignOf(designs, 1) =
          [id |-> Str(<<"loading-", "0">>), imageUrl |-> Placeholder,
           title |-> Str(<<"red", " ", "dragon">>), isLoading |-> FALSE]
    /\ DesignOf(designs, 2).id = Str(<<"loading-", "1">>)
    /\ DesignOf(designs, 2).imageUrl = Str(<<"https://fal.media/x.png">>)
    /\ ~DesignOf(designs, 2).isLoading

\* C28: handling a terminal outcome of one generation request changes only
\* the design created for that request: the list keeps its length and its
\* order, every other design is unchanged, and the texture changes only on
\* a result event that carries an image url.
C28_OnlyOwnDesignChanges ==
    [][\A k \in 1..Len(sources) :
          (k <= Len(sources') /\ sources'[k].received # sources[k].received) =>
              /\ Len(designs') = Len(designs)
              /\ \A p \in 1..Len(designs) :
                    /\ designs'[p].id = designs[p].id
                    /\ p # Len(designs) - k + 1 => designs'[p] = designs[p]
              /\ textureUrl' # textureUrl =>
                    ~WithoutImage(sources'[k].received[1])
              /\ WithoutImage(sources'[k].received[1]) => textureUrl' = textureUrl]_vars

=============================================================================
